---- MODULE Spec2Model ----
\* GeocodingField (geocoding-field.tsx): a React function component that
\* forward-geocodes the text of an input and reverse-geocodes the map's
\* viewport centre through the Mapbox geocoding API.
\*
\* The component is modelled as a state machine: its two useState cells, the
\* isMounted ref, the props it is rendered with, the fetches in flight, the
\* pending setTimeout callbacks and a simulated clock.  Each handler (an event
\* handler, an effect run after a render, a promise continuation, a timer
\* callback) is one action.
\*
\* App.componentDidMount (app.tsx), which loads the session key, the user, the
\* datasets and the place pages before any field is rendered, is modelled as a
\* second state machine, AppSpec: one action per continuation of an await or
\* of a promise it leaves unawaited.
EXTENDS Integers, Sequences, FiniteSets, Bags, TLC

\* ------------------------------------------------------------------ bounds
\* Number of HTTP requests that may be in flight at once.
MaxInFlight == 2
\* Number of setTimeout callbacks that may be pending at once.
MaxTimers == 1
\* The simulated clock advances in steps of BannerTimeout / TicksPerTimeout.
TicksPerTimeout == 2
\* Number of datasets in datasetsConfig.
MaxDatasets == 2
\* Largest number of page promises in one response of place.get.
MaxPages == 2

\* ------------------------------------------------------- program constants
\* setTimeout delay of the error banner.
BannerTimeout == 5000
\* zoom of the setMapViewport event.
GeocodeZoom == 14
\* transitionDuration of the setMapViewport event.
GeocodeTransitionDuration == 1000

\* The simulated clock stops advancing once the first possible timer is due.
MaxTime == BannerTimeout
\* Largest step of the simulated clock (ms).
TickMs == BannerTimeout \div TicksPerTimeout

MAP_PROVIDER_TOKEN == "pk.token"
\* The `name` prop of the field.
FieldName == "location"

\* --------------------------------------------------------------- inputs
\* Text is a sequence of tokens; " " is the token encodeURIComponent escapes.
EmptyText == << >>
Values == {EmptyText, <<"123", " ", "Main", " ", "St">>}
PlaceNames == {EmptyText, <<"Pike", " ", "Place">>}

\* [longitude, latitude] pairs (integers stand for the degrees).
Coordinates == {<<-122, 47>>, <<0, 0>>}
MapViewports == {[longitude |-> c[1], latitude |-> c[2]] : c \in Coordinates}

\* The map configuration the field is rendered with: a proximity hint and no
\* bounding box.  It is loaded once, before the field is rendered.
Undefined == [defined |-> FALSE, val |-> << >>]
mapConfig ==
    [ geocodeHint |-> [defined |-> TRUE, val |-> <<-122, 47>>],
      geocodeBoundingBox |-> Undefined ]

\* The JSON bodies a geocoding response may carry.  A feature's geometry may be
\* absent, or present without a coordinates array.
NoGeometry == [defined |-> FALSE, hasCoordinates |-> FALSE, coordinates |-> <<0, 0>>]
Geometries ==
    {NoGeometry, [defined |-> TRUE, hasCoordinates |-> FALSE, coordinates |-> <<0, 0>>]}
    \cup {[defined |-> TRUE, hasCoordinates |-> TRUE, coordinates |-> c] : c \in Coordinates}
ForwardFeatures == {[geometry |-> g, place_name |-> EmptyText] : g \in Geometries}
ReverseFeatures == {[geometry |-> NoGeometry, place_name |-> n] : n \in PlaceNames}
NoFeatures == [hasFeatures |-> FALSE, features |-> << >>]
ForwardData ==
    {NoFeatures, [hasFeatures |-> TRUE, features |-> << >>]}
    \cup {[hasFeatures |-> TRUE, features |-> <<f>>] : f \in ForwardFeatures}
ReverseData ==
    {NoFeatures, [hasFeatures |-> TRUE, features |-> << >>]}
    \cup {[hasFeatures |-> TRUE, features |-> <<f>>] : f \in ReverseFeatures}
\* A fetch either rejects (network failure, body that is not JSON) or resolves
\* with parsed data.
ForwardResponses ==
    {[rejected |-> TRUE, data |-> NoFeatures]}
    \cup {[rejected |-> FALSE, data |-> d] : d \in ForwardData}
ReverseResponses ==
    {[rejected |-> TRUE, data |-> NoFeatures]}
    \cup {[rejected |-> FALSE, data |-> d] : d \in ReverseData}


VARIABLES
    phase,                  \* "rendered" (before the effects of the first render), "mounted", "unmounted"
    isMounted,              \* isMounted.current
    isGeocoding,            \* useState
    isWithGeocodingError,   \* useState
    mapViewport,            \* props
    isMapDraggingOrZooming,
    isTriggeringGeocode,
    value,
    pending,                \* the bag of fetches in flight
    timers,                 \* due times of the pending setTimeout callbacks, in order
    clock,                  \* simulated time, ms
    errorShownAt,           \* while the error flag is set: clock at the latest setIsWithGeocodingError(true)
    \* What the handler of the latest step did, in order:
    last,                   \* which handler it was, how the request it settled ended,
                            \* and the error flag it started from
    stateWrites,            \* its calls of the two state setters
    fetched,                \* the requests it issued
    events,                 \* the payloads it emitted as "setMapViewport"
    onChangeCalls,          \* its calls of the onChange prop
    consoleErrors,          \* the messages it passed to console.error
    app                     \* App.componentDidMount: its position, the requests it
                            \* started, the cookie and the store it writes to

fieldVars == <<phase, isMounted, isGeocoding, isWithGeocodingError, mapViewport,
          isMapDraggingOrZooming, isTriggeringGeocode, value,
          pending, timers, clock, errorShownAt, last, stateWrites, fetched,
          events, onChangeCalls, consoleErrors>>

vars == <<fieldVars, app>>

props == <<mapViewport, isMapDraggingOrZooming, isTriggeringGeocode, value>>

\* ---------------------------------------------------- App.componentDidMount
Datasets == 1..MaxDatasets

NoCookie == [defined |-> FALSE, val |-> ""]
\* The sa-api-sessionid cookie before the page loads: absent on a first visit.
Cookies == {NoCookie, [defined |-> TRUE, val |-> "s-old"]}
\* Settlements of session.json(): the body of the session-key response.
SessionJsons ==
    {[rejected |-> TRUE, sessionid |-> ""], [rejected |-> FALSE, sessionid |-> "s-new"]}
\* Settlements of mapseedApiClient.user.get: a user, or a falsy value when
\* nobody is signed in.
AuthedUsers ==
    {[rejected |-> TRUE, truthy |-> FALSE, id |-> 0, username |-> ""],
     [rejected |-> FALSE, truthy |-> FALSE, id |-> 0, username |-> ""],
     [rejected |-> FALSE, truthy |-> TRUE, id |-> 7, username |-> "ada"]}
\* Settlements of mapseedApiClient.place.get: an array of page promises, or a
\* falsy value.
PlaceResponses ==
    {[rejected |-> TRUE, truthy |-> FALSE, pages |-> 0],
     [rejected |-> FALSE, truthy |-> FALSE, pages |-> 0]}
    \cup {[rejected |-> FALSE, truthy |-> TRUE, pages |-> n] : n \in 0..MaxPages}

NoUser ==
    [ isLoaded |-> FALSE, isAuthenticated |-> FALSE, token |-> "", name |-> "" ]

\* The application before componentDidMount runs.
AppBeforeMount(env, c) ==
    [ NODE_ENV |-> env,
      pc |-> "start",                   \* the await componentDidMount is suspended at
      sessionKey |-> "none",            \* the session-key chain: "fetching", "parsing", "saved", "failed"
      cookie |-> c,                     \* the sa-api-sessionid cookie
      cookieReadDuring |-> "unread",    \* sessionKey when the cookie was read for the token
      user |-> NoUser,                  \* the user passed to loadUser
      mixpanel |-> << >>,               \* the Mixpanel calls
      datasetsLoaded |-> FALSE,         \* loadDatasets was dispatched
      isInitialDataLoaded |-> FALSE,    \* this.state
      placesLoadStatus |-> "unloaded",  \* the argument of the latest updatePlacesLoadStatus
      placeGet |-> [d \in Datasets |-> "idle"],     \* per dataset: the callback of datasetsConfig.map
      placePages |-> [d \in Datasets |-> << >>],    \* per dataset: the callbacks of response.forEach
      logged |-> << >> ]                \* the Util.log calls


\* ------------------------------------------------------------ URL building
RECURSIVE encodeURIComponent(_)
encodeURIComponent(text) ==
    IF text = << >> THEN ""
    ELSE (IF Head(text) = " " THEN "%20" ELSE Head(text)) \o encodeURIComponent(Tail(text))

RECURSIVE join(_)
join(nums) ==
    IF nums = << >> THEN ""
    ELSE IF Len(nums) = 1 THEN ToString(nums[1])
    ELSE ToString(Head(nums)) \o "," \o join(Tail(nums))

ForwardUrl(v, cfg) ==
    "https://api.mapbox.com/geocoding/v5/mapbox.places/" \o encodeURIComponent(v)
    \o ".json?access_token=" \o MAP_PROVIDER_TOKEN
    \o (IF cfg.geocodeHint.defined THEN "&proximity=" \o join(cfg.geocodeHint.val) ELSE "")
    \o (IF cfg.geocodeBoundingBox.defined
        THEN "&bbox=" \o join(cfg.geocodeBoundingBox.val) ELSE "")

ReverseUrl(viewport) ==
    "https://api.mapbox.com/geocoding/v5/mapbox.places/" \o ToString(viewport.longitude)
    \o "," \o ToString(viewport.latitude) \o ".json?access_token=" \o MAP_PROVIDER_TOKEN

\* --------------------------------------------------- the component's state
\* The handlers are written as functions from a snapshot of the component to
\* the snapshot after the handler; an action commits the final snapshot.
Snapshot ==
    [ live |-> phase = "mounted",
      isMounted |-> isMounted,
      now |-> clock,
      isGeocoding |-> isGeocoding,
      isWithGeocodingError |-> isWithGeocodingError,
      renderedError |-> isWithGeocodingError,
      pending |-> pending,
      timers |-> timers,
      errorShownAt |-> errorShownAt,
      stateWrites |-> << >>,
      fetched |-> << >>,
      events |-> << >>,
      onChangeCalls |-> << >>,
      consoleErrors |-> << >> ]

Write(setter, v) == [setter |-> setter, value |-> v]

\* The state setters of useState.  React drops an update of a component it
\* has unmounted (and warns about it); the call is made all the same.
setIsGeocoding(s, v) ==
    LET s1 == [s EXCEPT !.stateWrites = Append(@, Write("setIsGeocoding", v))]
    IN  IF s.live THEN [s1 EXCEPT !.isGeocoding = v] ELSE s1

setIsWithGeocodingError(s, v) ==
    LET s1 == [s EXCEPT !.stateWrites = Append(@, Write("setIsWithGeocodingError", v))]
    IN  IF s.live
        THEN [s1 EXCEPT !.isWithGeocodingError = v,
                        !.errorShownAt = IF v THEN s.now ELSE 0]
        ELSE s1

fetch(s, req) ==
    [s EXCEPT !.fetched = Append(@, req), !.pending = @ (+) SetToBag({req})]

consoleError(s, msg) == [s EXCEPT !.consoleErrors = Append(@, msg)]

\* The effect with dependency [isWithGeocodingError]: it runs after a render in
\* which the flag differs from the previous render, and starts a timer when the
\* flag is true.  No cleanup is returned, so no timer is ever cleared.
ErrorTimerEffect(s) ==
    IF s.live /\ s.isWithGeocodingError # s.renderedError
    THEN [s EXCEPT !.renderedError = s.isWithGeocodingError,
                   !.timers = IF s.isWithGeocodingError
                              THEN Append(@, s.now + BannerTimeout) ELSE @]
    ELSE s

\* The callback handed to setTimeout.
TimerCallback(s) == setIsWithGeocodingError(s, FALSE)

\* ------------------------------------------------------- forward geocoding
doGeocode(s, v, cfg) ==
    LET s1 == setIsGeocoding(s, TRUE)
        s2 == setIsWithGeocodingError(s1, FALSE)
    IN  fetch(s2, [kind |-> "forward", url |-> ForwardUrl(v, cfg)])

\* data.features && data.features[0] && data.features[0].geometry
LocationGeometry(data) ==
    IF data.hasFeatures /\ Len(data.features) > 0 /\ data.features[1].geometry.defined
    THEN data.features[1].geometry
    ELSE NoGeometry

\* Mutant: latitude and longitude taken from the wrong elements.
SetMapViewportPayload_Swapped(geometry) ==
    [ latitude |-> geometry.coordinates[1],
      longitude |-> geometry.coordinates[2],
      zoom |-> GeocodeZoom,
      transitionDuration |-> GeocodeTransitionDuration ]

SetMapViewportPayload(geometry) ==
    [ latitude |-> geometry.coordinates[2],
      longitude |-> geometry.coordinates[1],
      zoom |-> GeocodeZoom,
      transitionDuration |-> GeocodeTransitionDuration ]

\* The .then(data => ...) handler of doGeocode, up to the point where it
\* returns or throws.
ThenForward(s, data) ==
    LET locationGeometry == LocationGeometry(data) IN
    IF locationGeometry.defined /\ s.isMounted
    THEN LET s1 == setIsGeocoding(s, FALSE)
             s2 == setIsWithGeocodingError(s1, FALSE)
         IN  IF locationGeometry.hasCoordinates
             THEN [s2 EXCEPT !.events = Append(@, SetMapViewportPayload(locationGeometry))]
             ELSE s2
    ELSE IF s.isMounted
    THEN setIsWithGeocodingError(setIsGeocoding(s, FALSE), TRUE)
    ELSE s

\* locationGeometry.coordinates[1] of a geometry without coordinates is a
\* TypeError, which the .catch of the chain receives.
ThenForwardThrows(s, data) ==
    LET locationGeometry == LocationGeometry(data) IN
    locationGeometry.defined /\ s.isMounted /\ ~locationGeometry.hasCoordinates

\* Mutant: the catch handler tries the lookup again.
CatchForward_Retry(s) ==
    LET s1 == IF s.isMounted
              THEN setIsWithGeocodingError(setIsGeocoding(s, FALSE), TRUE)
              ELSE s
        s2 == consoleError(s1, "There was an error while geocoding: ")
    IN  fetch(s2, [kind |-> "forward", url |-> ForwardUrl(value, mapConfig)])

CatchForward(s) ==
    LET s1 == IF s.isMounted
              THEN setIsWithGeocodingError(setIsGeocoding(s, FALSE), TRUE)
              ELSE s
    IN  consoleError(s1, "There was an error while geocoding: ")

\* The whole promise chain of doGeocode for one response.  Outside a React
\* event handler the two renders of a handler that throws half-way are either
\* batched with the .catch handler's updates or committed before it.
SettleForward(s, response, batched) ==
    IF response.rejected THEN CatchForward(s)
    ELSE IF ThenForwardThrows(s, response.data)
    THEN CatchForward(IF batched THEN ThenForward(s, response.data)
                      ELSE ErrorTimerEffect(ThenForward(s, response.data)))
    ELSE ThenForward(s, response.data)

ForwardOutcome(response) ==
    IF response.rejected THEN "rejected"
    ELSE IF ~LocationGeometry(response.data).defined THEN "notfound"
    ELSE IF ~LocationGeometry(response.data).hasCoordinates THEN "malformed"
    ELSE "found"

\* The effect with dependencies [isTriggeringGeocode, doGeocode].
TriggerGeocodeEffect(s, triggering, v, cfg) ==
    IF triggering THEN doGeocode(s, v, cfg) ELSE s

\* ------------------------------------------------------- reverse geocoding
\* Mutant: starting a reverse lookup clears the error flag, as doGeocode does.
ReverseGeocodeEffect_ClearsError(s, dragging, viewport) ==
    IF dragging THEN s
    ELSE fetch(setIsWithGeocodingError(setIsGeocoding(s, TRUE), FALSE),
               [kind |-> "reverse", url |-> ReverseUrl(viewport)])

\* Mutant: the effect does not wait for the map to come to rest.
ReverseGeocodeEffect_NoSettleGate(s, dragging, viewport) ==
    fetch(setIsGeocoding(s, TRUE), [kind |-> "reverse", url |-> ReverseUrl(viewport)])

\* The effect with dependencies [mapViewport, isMapDraggingOrZooming].
ReverseGeocodeEffect(s, dragging, viewport) ==
    IF dragging THEN s
    ELSE fetch(setIsGeocoding(s, TRUE),
               [kind |-> "reverse", url |-> ReverseUrl(viewport)])

\* data.features && data.features[0] && data.features[0].place_name
PlaceName(data) ==
    IF data.hasFeatures /\ Len(data.features) > 0
    THEN data.features[1].place_name
    ELSE EmptyText

\* Mutant: a place name that arrives while the map is moving is dropped.
ThenReverse_DropsWhileDragging(s, data) ==
    LET placeName == PlaceName(data) IN
    IF placeName # EmptyText /\ s.isMounted /\ ~isMapDraggingOrZooming
    THEN LET s1 == setIsGeocoding(s, FALSE)
             s2 == setIsWithGeocodingError(s1, FALSE)
         IN  [s2 EXCEPT !.onChangeCalls =
                            Append(@, [name |-> FieldName, value |-> placeName])]
    ELSE IF s.isMounted /\ placeName = EmptyText
    THEN setIsWithGeocodingError(setIsGeocoding(s, FALSE), TRUE)
    ELSE s

\* Mutant: the not-found branch empties the text field.
ThenReverse_NotFoundClearsField(s, data) ==
    LET placeName == PlaceName(data) IN
    IF placeName # EmptyText /\ s.isMounted
    THEN LET s1 == setIsGeocoding(s, FALSE)
             s2 == setIsWithGeocodingError(s1, FALSE)
         IN  [s2 EXCEPT !.onChangeCalls =
                            Append(@, [name |-> FieldName, value |-> placeName])]
    ELSE IF s.isMounted
    THEN LET s1 == setIsWithGeocodingError(setIsGeocoding(s, FALSE), TRUE)
         IN  [s1 EXCEPT !.onChangeCalls =
                            Append(@, [name |-> FieldName, value |-> EmptyText])]
    ELSE s

\* Mutant: the not-found branch does not look at isMounted.current.
ThenReverse_Unguarded(s, data) ==
    LET placeName == PlaceName(data) IN
    IF placeName # EmptyText /\ s.isMounted
    THEN LET s1 == setIsGeocoding(s, FALSE)
             s2 == setIsWithGeocodingError(s1, FALSE)
         IN  [s2 EXCEPT !.onChangeCalls =
                            Append(@, [name |-> FieldName, value |-> placeName])]
    ELSE setIsWithGeocodingError(setIsGeocoding(s, FALSE), TRUE)

ThenReverse(s, data) ==
    LET placeName == PlaceName(data) IN
    IF placeName # EmptyText /\ s.isMounted
    THEN LET s1 == setIsGeocoding(s, FALSE)
             s2 == setIsWithGeocodingError(s1, FALSE)
         IN  [s2 EXCEPT !.onChangeCalls =
                            Append(@, [name |-> FieldName, value |-> placeName])]
    ELSE IF s.isMounted
    THEN setIsWithGeocodingError(setIsGeocoding(s, FALSE), TRUE)
    ELSE s

\* Mutant: the catch handler sets the flags and logs nothing.
CatchReverse_Silent(s) ==
    IF s.isMounted
    THEN setIsWithGeocodingError(setIsGeocoding(s, FALSE), TRUE)
    ELSE s

\* Mutant: the catch handler logs the error and leaves the flags alone.
CatchReverse_NoError(s) ==
    consoleError(s, "There was an error while reverse geocoding: ")

CatchReverse(s) ==
    LET s1 == IF s.isMounted
              THEN setIsWithGeocodingError(setIsGeocoding(s, FALSE), TRUE)
              ELSE s
    IN  consoleError(s1, "There was an error while reverse geocoding: ")

SettleReverse(s, response) ==
    IF response.rejected THEN CatchReverse(s) ELSE ThenReverse(s, response.data)

ReverseOutcome(response) ==
    IF response.rejected THEN "rejected"
    ELSE IF PlaceName(response.data) = EmptyText THEN "notfound"
    ELSE "found"

\* ----------------------------------------------------------------- actions
\* A step that settles no request.
Step(op) ==
    [ op |-> op, outcome |-> "", coordinates |-> <<0, 0>>, placeName |-> EmptyText,
      errorBefore |-> isWithGeocodingError ]

\* A step that settles a request: how the response ended, and the coordinates
\* or the place name it carried when it carried one.
Settled(op, outcome, response) ==
    [ op |-> op,
      outcome |-> outcome,
      coordinates |-> IF outcome = "found"
                      THEN LocationGeometry(response.data).coordinates ELSE <<0, 0>>,
      placeName |-> IF outcome = "found" THEN PlaceName(response.data) ELSE EmptyText,
      errorBefore |-> isWithGeocodingError ]

Requests ==
    {[kind |-> "forward", url |-> ForwardUrl(v, mapConfig)] : v \in Values}
    \cup {[kind |-> "reverse", url |-> ReverseUrl(viewport)] : viewport \in MapViewports}

\* Commit the snapshot a handler produced: React renders, then runs the
\* effects whose dependencies changed.
Commit(s0, step) ==
    LET s == ErrorTimerEffect(s0) IN
    /\ BagCardinality(s.pending) <= MaxInFlight
    /\ Len(s.timers) <= MaxTimers
    /\ isGeocoding' = s.isGeocoding
    /\ isWithGeocodingError' = s.isWithGeocodingError
    /\ pending' = s.pending
    /\ timers' = s.timers
    /\ errorShownAt' = s.errorShownAt
    /\ stateWrites' = s.stateWrites
    /\ fetched' = s.fetched
    /\ events' = s.events
    /\ onChangeCalls' = s.onChangeCalls
    /\ consoleErrors' = s.consoleErrors
    /\ last' = step

Init ==
    /\ phase = "rendered"
    /\ isMounted = TRUE
    /\ isGeocoding = FALSE
    /\ isWithGeocodingError = FALSE
    /\ mapViewport \in MapViewports
    /\ isMapDraggingOrZooming \in BOOLEAN
    /\ isTriggeringGeocode \in BOOLEAN
    /\ value \in Values
    /\ pending = EmptyBag
    /\ timers = << >>
    /\ clock = 0
    /\ errorShownAt = 0
    /\ last = Step("render")
    /\ stateWrites = << >>
    /\ fetched = << >>
    /\ events = << >>
    /\ onChangeCalls = << >>
    /\ consoleErrors = << >>
    /\ app = AppBeforeMount("development", NoCookie)

\* Mutant: the first render runs the trigger effect only.
Mount_SkipsReverseEffect ==
    /\ phase = "rendered"
    /\ phase' = "mounted"
    /\ Commit(TriggerGeocodeEffect([Snapshot EXCEPT !.live = TRUE],
                                   isTriggeringGeocode, value, mapConfig),
              Step("mount"))
    /\ UNCHANGED <<app, isMounted, props, clock>>

\* The effects of the first render, in the order they are declared.
Mount ==
    /\ phase = "rendered"
    /\ phase' = "mounted"
    /\ LET s1 == ReverseGeocodeEffect([Snapshot EXCEPT !.live = TRUE],
                                      isMapDraggingOrZooming, mapViewport)
           s2 == TriggerGeocodeEffect(s1, isTriggeringGeocode, value, mapConfig)
       IN  Commit(s2, Step("mount"))
    /\ UNCHANGED <<app, isMounted, props, clock>>

\* Mutant: the effect returns no cleanup.
UnmountCleanup_Missing == isMounted' = isMounted

\* The cleanup of the effect with no dependencies.
UnmountCleanup == isMounted' = FALSE

Unmount ==
    /\ phase = "mounted"
    /\ phase' = "unmounted"
    /\ UnmountCleanup
    /\ Commit([Snapshot EXCEPT !.live = FALSE],
              Step("unmount"))
    /\ UNCHANGED <<app, props, clock>>

\* onClick of the search button, which is rendered only while !isGeocoding.
Click ==
    /\ phase = "mounted"
    /\ ~isGeocoding
    /\ Commit(doGeocode(Snapshot, value, mapConfig),
              Step("click"))
    /\ UNCHANGED <<app, phase, isMounted, props, clock>>

\* Mutant: the blur handler issues the request without the state updates.
Blur_RequestOnly ==
    /\ phase = "mounted"
    /\ Commit(fetch(Snapshot, [kind |-> "forward", url |-> ForwardUrl(value, mapConfig)]),
              Step("blur"))
    /\ UNCHANGED <<app, phase, isMounted, props, clock>>

\* onBlur of the text input.
Blur ==
    /\ phase = "mounted"
    /\ Commit(doGeocode(Snapshot, value, mapConfig),
              Step("blur"))
    /\ UNCHANGED <<app, phase, isMounted, props, clock>>

\* onChange of the text input: the user's text goes to the parent's onChange.
TypeInput(text) ==
    /\ phase = "mounted"
    /\ Commit([Snapshot EXCEPT !.onChangeCalls =
                                   Append(@, [name |-> FieldName, value |-> text])],
              Step("type"))
    /\ UNCHANGED <<app, phase, isMounted, props, clock>>

\* The parent renders the field with another value: doGeocode is a new
\* function, so the trigger effect runs again.
SetValue(v) ==
    /\ phase = "mounted"
    /\ v # value
    /\ value' = v
    /\ Commit(TriggerGeocodeEffect(Snapshot, isTriggeringGeocode, v, mapConfig),
              Step("value"))
    /\ UNCHANGED <<app, phase, isMounted, mapViewport, isMapDraggingOrZooming,
                   isTriggeringGeocode, clock>>

SetIsTriggeringGeocode(b) ==
    /\ phase = "mounted"
    /\ b # isTriggeringGeocode
    /\ isTriggeringGeocode' = b
    /\ Commit(TriggerGeocodeEffect(Snapshot, b, value, mapConfig),
              Step("trigger"))
    /\ UNCHANGED <<app, phase, isMounted, mapViewport, isMapDraggingOrZooming, value,
                   clock>>

\* The store holds a new viewport object (its centre may be the old one, as
\* after a zoom): the reverse-geocode effect runs again.
UpdateMapViewport(viewport) ==
    /\ phase = "mounted"
    /\ mapViewport' = viewport
    /\ Commit(ReverseGeocodeEffect(Snapshot, isMapDraggingOrZooming, viewport),
              Step("viewport"))
    /\ UNCHANGED <<app, phase, isMounted, isMapDraggingOrZooming, isTriggeringGeocode,
                   value, clock>>

SetMapDraggingOrZooming(b) ==
    /\ phase = "mounted"
    /\ b # isMapDraggingOrZooming
    /\ isMapDraggingOrZooming' = b
    /\ Commit(ReverseGeocodeEffect(Snapshot, b, mapViewport),
              Step("dragging"))
    /\ UNCHANGED <<app, phase, isMounted, mapViewport, isTriggeringGeocode, value,
                   clock>>

\* A forward request settles: the promise chain of doGeocode runs.
ResolveForward(request, response, batched) ==
    /\ BagIn(request, pending)
    /\ request.kind = "forward"
    /\ batched \/ ForwardOutcome(response) = "malformed"
    /\ LET s == [Snapshot EXCEPT !.pending = @ (-) SetToBag({request})]
       IN  Commit(SettleForward(s, response, batched),
                  Settled("resolveForward", ForwardOutcome(response), response))
    /\ UNCHANGED <<app, phase, isMounted, props, clock>>

\* A reverse request settles: the promise chain of the effect runs.
ResolveReverse(request, response) ==
    /\ BagIn(request, pending)
    /\ request.kind = "reverse"
    /\ LET s == [Snapshot EXCEPT !.pending = @ (-) SetToBag({request})]
       IN  Commit(SettleReverse(s, response),
                  Settled("resolveReverse", ReverseOutcome(response), response))
    /\ UNCHANGED <<app, phase, isMounted, props, clock>>

\* The oldest timer is due: its callback runs.
TimerFire ==
    /\ timers # << >>
    /\ Head(timers) <= clock
    /\ Commit(TimerCallback([Snapshot EXCEPT !.timers = Tail(@)]),
              Step("timer"))
    /\ UNCHANGED <<app, phase, isMounted, props, clock>>

\* Time passes, up to the next due timer.
Tick ==
    /\ clock < MaxTime
    /\ timers # << >> => Head(timers) > clock
    /\ clock' = IF timers # << >> /\ Head(timers) < clock + TickMs
                THEN Head(timers) ELSE clock + TickMs
    /\ Commit(Snapshot, Step("tick"))
    /\ UNCHANGED <<app, phase, isMounted, props>>

Next ==
    \/ Mount
    \/ Unmount
    \/ Click
    \/ Blur
    \/ \E text \in Values : TypeInput(text)
    \/ \E v \in Values : SetValue(v)
    \/ \E b \in BOOLEAN : SetIsTriggeringGeocode(b)
    \/ \E viewport \in MapViewports : UpdateMapViewport(viewport)
    \/ \E b \in BOOLEAN : SetMapDraggingOrZooming(b)
    \/ \E request \in Requests, response \in ForwardResponses, batched \in BOOLEAN :
           ResolveForward(request, response, batched)
    \/ \E request \in Requests, response \in ReverseResponses :
           ResolveReverse(request, response)
    \/ TimerFire
    \/ Tick

Spec == Init /\ [][Next]_vars

\* -------------------------------------------- App.componentDidMount, steps
\* From the resolved config to the first await: the session-key request is
\* started and left unawaited, the user is requested.
AfterConfig(a) == [a EXCEPT !.sessionKey = "fetching", !.pc = "user"]

\* componentDidMount is called: in production the config is fetched first.
ComponentDidMount ==
    /\ app.pc = "start"
    /\ app' = IF app.NODE_ENV = "production"
              THEN [app EXCEPT !.pc = "config"]
              ELSE AfterConfig(app)
    /\ UNCHANGED fieldVars

\* The config request and its json() settle.
ConfigSettles(rejected) ==
    /\ app.pc = "config"
    /\ app' = IF rejected THEN [app EXCEPT !.pc = "rejected"] ELSE AfterConfig(app)
    /\ UNCHANGED fieldVars

\* The session-key request settles: its then-handler starts session.json().
\* The chain has no catch.
SessionKeyResponds(rejected) ==
    /\ app.sessionKey = "fetching"
    /\ app' = [app EXCEPT !.sessionKey = IF rejected THEN "failed" ELSE "parsing"]
    /\ UNCHANGED fieldVars

\* session.json() settles: the session id is saved to the cookie.
SessionJsonSettles(sessionJson) ==
    /\ app.sessionKey = "parsing"
    /\ app' = IF sessionJson.rejected
              THEN [app EXCEPT !.sessionKey = "failed"]
              ELSE [app EXCEPT !.sessionKey = "saved",
                               !.cookie = [defined |-> TRUE, val |-> sessionJson.sessionid]]
    /\ UNCHANGED fieldVars

\* The user object of lines 209-228; the anonymous user's token is built from
\* the cookie as it is at that moment.
User(authedUser, cookie) ==
    IF authedUser.truthy
    THEN [ isLoaded |-> TRUE, isAuthenticated |-> TRUE,
           token |-> "user:" \o ToString(authedUser.id),
           name |-> authedUser.username ]
    ELSE [ isLoaded |-> TRUE, isAuthenticated |-> FALSE,
           token |-> "session:" \o (IF cookie.defined THEN cookie.val ELSE "undefined"),
           name |-> "" ]

\* user.get settles: the user is built and loaded, the datasets are requested.
UserGetSettles(authedUser) ==
    /\ app.pc = "user"
    /\ app' = IF authedUser.rejected
              THEN [app EXCEPT !.pc = "rejected"]
              ELSE [app EXCEPT
                      !.user = User(authedUser, app.cookie),
                      !.cookieReadDuring =
                          IF authedUser.truthy THEN @ ELSE app.sessionKey,
                      !.mixpanel =
                          IF authedUser.truthy
                          THEN <<"identify", "track", "people.set">> ELSE @,
                      !.pc = "datasets"]
    /\ UNCHANGED fieldVars

\* datasets.get settles: the datasets and the config are loaded, the places
\* load status becomes "loading" and place.get is called for every dataset.
DatasetsGetSettles(rejected) ==
    /\ app.pc = "datasets"
    /\ app' = IF rejected
              THEN [app EXCEPT !.pc = "rejected"]
              ELSE [app EXCEPT
                      !.datasetsLoaded = TRUE,
                      !.isInitialDataLoaded = TRUE,
                      !.placesLoadStatus = "loading",
                      !.placeGet = [d \in Datasets |-> "requested"],
                      !.pc = "places"]
    /\ UNCHANGED fieldVars

\* place.get of one dataset settles: the rest of the callback of
\* datasetsConfig.map runs. Each callback of response.forEach runs up to its
\* await of the page promise; nothing awaits those callbacks. A rejection
\* rejects the Promise.all that componentDidMount awaits.
PlaceGetSettles(d, response) ==
    /\ app.placeGet[d] = "requested"
    /\ app' =
         IF response.rejected
         THEN [app EXCEPT !.placeGet[d] = "rejected",
                          !.pc = IF @ = "places" THEN "rejected" ELSE @]
         ELSE IF response.truthy
         THEN [app EXCEPT !.placeGet[d] = "returned",
                          !.placePages[d] = [i \in 1..response.pages |-> "awaited"]]
         ELSE [app EXCEPT !.placeGet[d] = "returned",
                          !.logged = Append(@, "fail-to-fetch-places-from-dataset")]
    /\ UNCHANGED fieldVars

\* A page promise settles: the callback of response.forEach passes the page to
\* loadPlaces and createFeaturesInGeoJSONSource. The page keeps the places load
\* status it was loaded under.
PlacePageSettles(d, i, rejected) ==
    /\ i \in 1..Len(app.placePages[d])
    /\ app.placePages[d][i] = "awaited"
    /\ app' = [app EXCEPT !.placePages[d][i] =
                              IF rejected THEN "failed"
                              ELSE "loaded while " \o app.placesLoadStatus]
    /\ UNCHANGED fieldVars

\* Every callback of datasetsConfig.map has returned: Promise.all resolves and
\* componentDidMount runs to its end.
PlacesLoaded ==
    /\ app.pc = "places"
    /\ \A d \in Datasets : app.placeGet[d] = "returned"
    /\ app' = [app EXCEPT !.placesLoadStatus = "loaded", !.pc = "done"]
    /\ UNCHANGED fieldVars

\* No field is rendered while the application loads.
AppInit ==
    /\ phase = "absent"
    /\ isMounted = TRUE
    /\ isGeocoding = FALSE
    /\ isWithGeocodingError = FALSE
    /\ mapViewport = [longitude |-> 0, latitude |-> 0]
    /\ isMapDraggingOrZooming = FALSE
    /\ isTriggeringGeocode = FALSE
    /\ value = EmptyText
    /\ pending = EmptyBag
    /\ timers = << >>
    /\ clock = 0
    /\ errorShownAt = 0
    /\ last = Step("render")
    /\ stateWrites = << >>
    /\ fetched = << >>
    /\ events = << >>
    /\ onChangeCalls = << >>
    /\ consoleErrors = << >>
    /\ \E env \in {"production", "development"}, c \in Cookies :
           app = AppBeforeMount(env, c)

AppNext ==
    \/ ComponentDidMount
    \/ \E rejected \in BOOLEAN : ConfigSettles(rejected)
    \/ \E rejected \in BOOLEAN : SessionKeyResponds(rejected)
    \/ \E sessionJson \in SessionJsons : SessionJsonSettles(sessionJson)
    \/ \E authedUser \in AuthedUsers : UserGetSettles(authedUser)
    \/ \E rejected \in BOOLEAN : DatasetsGetSettles(rejected)
    \/ \E d \in Datasets, response \in PlaceResponses : PlaceGetSettles(d, response)
    \/ \E d \in Datasets, i \in 1..MaxPages, rejected \in BOOLEAN :
           PlacePageSettles(d, i, rejected)
    \/ PlacesLoaded

AppSpec == AppInit /\ [][AppNext]_vars

\* ------------------------------------------------------------------ claims
Settles == {"resolveForward", "resolveReverse"}
Failures == {"rejected", "notfound", "malformed"}

\* C1: once isMounted.current is false, the continuation of a pending forward
\* or reverse request, however the request ends, calls no state setter, emits
\* no setMapViewport event and does not call onChange, and isGeocoding and
\* isWithGeocodingError keep their values.
C1_NoStateChangeAfterUnmount ==
    /\ [](~isMounted /\ last.op \in Settles
            => stateWrites = << >> /\ events = << >> /\ onChangeCalls = << >>)
    /\ [][~isMounted /\ last'.op \in Settles
            => UNCHANGED <<isGeocoding, isWithGeocodingError>>]_vars

\* A request that resolves with a usable feature after the unmount.
C1_Witness ==
    /\ ~isMounted
    /\ last.op = "resolveReverse"
    /\ last.outcome = "found"

\* C2: no step taken while isMapDraggingOrZooming is true issues a reverse
\* request, whatever mapViewport updates occur; a step that updates mapViewport
\* or clears the flag, with the flag false after it, issues exactly one request,
\* the reverse request for the centre of the latest mapViewport.
C2_SettleGate ==
    /\ isMapDraggingOrZooming => \A i \in 1..Len(fetched) : fetched[i].kind # "reverse"
    /\ (last.op \in {"viewport", "dragging"} /\ ~isMapDraggingOrZooming)
         => fetched = <<[kind |-> "reverse", url |-> ReverseUrl(mapViewport)]>>

\* The flag has just become false and the one request was issued.
C2_Witness ==
    /\ last.op = "dragging"
    /\ ~isMapDraggingOrZooming
    /\ Len(fetched) = 1

\* C3: a dismissal timer hides the banner of a mounted field exactly
\* BannerTimeout ms after the latest lookup failure set the error flag.
C3_BannerLastsExactlyTimeout ==
    [][(isMounted /\ isWithGeocodingError /\ ~isWithGeocodingError' /\ last'.op = "timer")
         => clock = errorShownAt + BannerTimeout]_vars

\* C4: a forward request that resolves with a feature carrying coordinates,
\* while the field is mounted, emits exactly one setMapViewport event with the
\* feature's latitude and longitude, zoom 14 and transitionDuration 1000, and
\* leaves isGeocoding and isWithGeocodingError false; no other step emits the
\* event.
C4_ForwardSuccess ==
    IF phase = "mounted" /\ last.op = "resolveForward" /\ last.outcome = "found"
    THEN /\ events = <<[ latitude |-> last.coordinates[2],
                         longitude |-> last.coordinates[1],
                         zoom |-> 14,
                         transitionDuration |-> 1000 ]>>
         /\ ~isGeocoding
         /\ ~isWithGeocodingError
    ELSE events = << >>

C4_Witness ==
    /\ phase = "mounted"
    /\ last.op = "resolveForward"
    /\ last.outcome = "found"
    /\ last.coordinates = <<-122, 47>>
    /\ Len(events) = 1

\* C5: while the field is mounted every forward or reverse request that is
\* rejected, or resolves without a usable feature, leaves isWithGeocodingError
\* true and isGeocoding false; and the error flag goes from false to true in no
\* other step.
C5_FailuresSetErrorFlag ==
    /\ (isMounted /\ last.op \in Settles /\ last.outcome \in Failures)
         => isWithGeocodingError /\ ~isGeocoding
    /\ (~last.errorBefore /\ isWithGeocodingError)
         => isMounted /\ last.op \in Settles /\ last.outcome \in Failures

\* A rejected reverse request raises the flag from false.
C5_Witness ==
    /\ isMounted
    /\ last.op = "resolveReverse"
    /\ last.outcome = "rejected"
    /\ ~last.errorBefore
    /\ isWithGeocodingError

\* C6 as stated: the error flag goes from true to false only in a step in
\* which a dismissal timer fires or a lookup completes successfully.
C6_HiddenOnlyByTimerOrSuccess ==
    (last.errorBefore /\ ~isWithGeocodingError)
      => \/ last.op = "timer"
         \/ last.op \in Settles /\ last.outcome = "found"

\* C6, amended: the error flag goes from true to false only in a step in which
\* a dismissal timer fires, a lookup completes successfully, or a forward
\* lookup is started (doGeocode clears the flag before it issues its request);
\* starting a reverse lookup does not hide the banner.
C6_HiddenByTimerSuccessOrForwardStart ==
    (last.errorBefore /\ ~isWithGeocodingError)
      => \/ last.op = "timer"
         \/ last.op \in Settles /\ last.outcome = "found"
         \/ \E i \in 1..Len(fetched) : fetched[i].kind = "forward"

\* A blur of the input hides a visible banner by starting a forward lookup.
C6_Witness ==
    /\ last.op = "blur"
    /\ last.errorBefore
    /\ ~isWithGeocodingError
    /\ Len(fetched) = 1

\* C7: a click, a blur and isTriggeringGeocode becoming true each issue
\* exactly one forward request; a permitted viewport change issues exactly one
\* reverse request; and no step that settles a request (so no failed or
\* not-found request), fires a timer or lets time pass issues any request.
C7_NoRetries ==
    /\ last.op \in {"click", "blur"}
         => Len(fetched) = 1 /\ fetched[1].kind = "forward"
    /\ (last.op = "trigger" /\ isTriggeringGeocode)
         => Len(fetched) = 1 /\ fetched[1].kind = "forward"
    /\ (last.op \in {"viewport", "dragging"} /\ ~isMapDraggingOrZooming)
         => Len(fetched) = 1 /\ fetched[1].kind = "reverse"
    /\ last.op \in Settles \cup {"timer", "tick", "type", "unmount"}
         => fetched = << >>

\* A forward request of a mounted field was rejected and nothing was issued.
C7_Witness ==
    /\ phase = "mounted"
    /\ last.op = "resolveForward"
    /\ last.outcome = "rejected"
    /\ fetched = << >>

\* C8: isMounted.current is true from the first render until the unmount, is
\* false after it, and changes in no step but the unmount, which sets it to
\* false: it never becomes true again.
C8_MountFlag ==
    /\ [](isMounted <=> phase # "unmounted")
    /\ [][isMounted' # isMounted
            => isMounted /\ ~isMounted' /\ last'.op = "unmount"]_vars

\* A step taken after the unmount.
C8_Witness ==
    /\ phase = "unmounted"
    /\ ~isMounted
    /\ last.op = "timer"

\* C9: the callback of a dismissal timer that fires after the unmount is
\* guarded by the mount flag: it calls no state setter.
C9_TimerGuardedAfterUnmount ==
    (phase = "unmounted" /\ last.op = "timer") => stateWrites = << >>

\* C10 as stated: every lookup that ends in a failure or without a usable
\* feature is logged.
C10_AllLookupErrorsLogged ==
    (last.op \in Settles /\ last.outcome \in Failures) => consoleErrors # << >>

\* C10, amended: only what reaches the catch handler of the promise chain is
\* logged.  A rejected request (network or parse failure) logs exactly one
\* console.error, for forward and for reverse geocoding, mounted or not; so
\* does the exception a mounted field raises on a geometry without
\* coordinates; a not-found result, like a success, logs nothing.
C10_OnlyCaughtErrorsLogged ==
    /\ (last.op = "resolveForward"
          /\ (last.outcome = "rejected" \/ (last.outcome = "malformed" /\ isMounted)))
         => consoleErrors = <<"There was an error while geocoding: ">>
    /\ (last.op = "resolveReverse" /\ last.outcome = "rejected")
         => consoleErrors = <<"There was an error while reverse geocoding: ">>
    /\ (last.op \in Settles /\ last.outcome \in {"notfound", "found"})
         => consoleErrors = << >>
    /\ (last.op = "resolveForward" /\ last.outcome = "malformed" /\ ~isMounted)
         => consoleErrors = << >>
    /\ last.op \notin Settles => consoleErrors = << >>

\* A not-found reverse result of a mounted field raised the flag unlogged.
C10_Witness ==
    /\ isMounted
    /\ last.op = "resolveReverse"
    /\ last.outcome = "notfound"
    /\ isWithGeocodingError
    /\ consoleErrors = << >>

\* C11: a request that is rejected or resolves without a usable feature,
\* forward or reverse, calls onChange with nothing and emits no setMapViewport
\* event; on a mounted field its only state updates are isGeocoding = false
\* and isWithGeocodingError = true, in that order, and the field ends not
\* loading and in error (also when handling the response raised an exception).
C11_FailureFrame ==
    (last.op \in Settles /\ last.outcome \in Failures)
      => /\ onChangeCalls = << >>
         /\ events = << >>
         /\ isMounted => ~isGeocoding /\ isWithGeocodingError
         /\ (isMounted /\ last.outcome \in {"rejected", "notfound"})
              => stateWrites = << Write("setIsGeocoding", FALSE),
                                  Write("setIsWithGeocodingError", TRUE) >>

\* A forward request of a mounted field resolved with an empty feature list.
C11_Witness ==
    /\ isMounted
    /\ last.op = "resolveForward"
    /\ last.outcome = "notfound"
    /\ Len(stateWrites) = 2

\* C12: a click on the search button and a blur of the input make the same
\* state updates (isGeocoding = true, isWithGeocodingError = false) and issue
\* one request, whose URL is the forward URL of the current value, hint and
\* bounding box.
C12_ClickAndBlurAgree ==
    last.op \in {"click", "blur"}
      => /\ stateWrites = << Write("setIsGeocoding", TRUE),
                             Write("setIsWithGeocodingError", FALSE) >>
         /\ fetched = <<[kind |-> "forward", url |-> ForwardUrl(value, mapConfig)]>>
         /\ isGeocoding
         /\ ~isWithGeocodingError

\* The input with a non-empty value was blurred.
C12_Witness ==
    /\ last.op = "blur"
    /\ value # EmptyText
    /\ Len(fetched) = 1
    /\ fetched[1].url =
         "https://api.mapbox.com/geocoding/v5/mapbox.places/123%20Main%20St.json?access_token=pk.token&proximity=-122,47"

\* C13: a reverse request that resolves with a place name on a mounted field
\* is applied whatever the map is doing by then: onChange(name, placeName) is
\* called once and both flags are cleared, also while isMapDraggingOrZooming
\* is true (the user resumed dragging after the request was issued).
C13_StaleReverseApplied ==
    (isMounted /\ last.op = "resolveReverse" /\ last.outcome = "found")
      => /\ onChangeCalls = <<[name |-> FieldName, value |-> last.placeName]>>
         /\ ~isGeocoding
         /\ ~isWithGeocodingError

\* A place name arrives while the user is dragging again.
C13_Witness ==
    /\ isMounted
    /\ isMapDraggingOrZooming
    /\ last.op = "resolveReverse"
    /\ last.outcome = "found"
    /\ Len(onChangeCalls) = 1

\* C14: while the field is mounted, isGeocoding is true whenever a forward or
\* reverse request is in flight.
C14_LoadingWhileInFlight ==
    (phase = "mounted" /\ BagCardinality(pending) > 0) => isGeocoding

\* The reverse requests issued by the last step.
ReverseFetched == SelectSeq(fetched, LAMBDA req : req.kind = "reverse")

\* C17 as stated: a reverse request is issued only by a change of the map
\* viewport with isMapDraggingOrZooming false; mounting the field and the flag
\* going back to false issue none.
C17_ReverseOnlyOnViewportChange ==
    ReverseFetched # << >> => (last.op = "viewport" /\ ~isMapDraggingOrZooming)

\* C17: a reverse request is issued by exactly the runs of the reverse-geocode
\* effect that find isMapDraggingOrZooming false: the run at mount, the run for
\* a new mapViewport and the run for a change of the flag. Each such run issues
\* one request, for the current centre, whether or not that centre is already
\* being looked up.
C17_ReverseOnEveryEffectRunAtRest ==
    /\ ReverseFetched # << >>
         <=> (last.op \in {"mount", "viewport", "dragging"} /\ ~isMapDraggingOrZooming)
    /\ ReverseFetched # << >>
         => ReverseFetched = <<[kind |-> "reverse", url |-> ReverseUrl(mapViewport)]>>

\* The flag goes back to false while the centre is still being looked up: a
\* second request for the same centre is in flight.
C17_Witness ==
    /\ last.op = "dragging"
    /\ ~isMapDraggingOrZooming
    /\ Len(ReverseFetched) = 1
    /\ CopiesIn([kind |-> "reverse", url |-> ReverseUrl(mapViewport)], pending) = 2

\* The place pages whose forEach callback has started.
PlacePages == {<<d, i>> \in Datasets \X (1..MaxPages) : i <= Len(app.placePages[d])}

\* C15: the places load status is "loading" before any page is passed to
\* loadPlaces; once it is "loaded", every page of every dataset has been passed
\* to loadPlaces and createFeaturesInGeoJSONSource, and none is passed later.
C15_LoadedAfterEveryPage ==
    /\ \A pg \in PlacePages : app.placePages[pg[1]][pg[2]] # "loaded while unloaded"
    /\ app.placesLoadStatus = "loaded"
         => \A pg \in PlacePages : app.placePages[pg[1]][pg[2]] = "loaded while loading"

\* C16: when an anonymous user has been loaded and the session-key request has
\* saved its session id, the cookie was read for the user's token after the
\* session id was saved.
C16_CookieSavedBeforeRead ==
    (app.user.isLoaded /\ ~app.user.isAuthenticated /\ app.sessionKey = "saved")
      => app.cookieReadDuring = "saved"

====
